---- MODULE Spec2Model ----
(***************************************************************************)
(* Model of download_youtube_media (src/ytdown.py): one call of the        *)
(* function, from the point where the results record has been built to     *)
(* its return.  The external downloader (yt_dlp.YoutubeDL) and the file    *)
(* system are black boxes whose outcomes are chosen nondeterministically.  *)
(***************************************************************************)
EXTENDS Integers, Sequences, FiniteSets, TLC

\* ----------------------------------------------------------------- bounds
\* longest formats list passed to one call
MaxLen == 2

\* ----------------------------------------------------------------- inputs
\* the seven keys of format_configs
SupportedFormats == {"mp3", "mp4", "webm", "m4a", "flac", "wav", "ogg"}

\* format identifiers a caller may pass: the supported ones and one that is not
FormatIds == SupportedFormats \cup {"avi"}

\* values of the quality argument
Qualities == {"128", "320"}

Urls == {"https://youtube.com/watch?v=x"}

OutputDirs == {"downloads"}

\* values of (keep_original, quiet): each flag off and on; both are only
\* copied into ydl_opts
PassThroughFlags == {<<FALSE, FALSE>>, <<TRUE, TRUE>>}

\* sizes in bytes that os.path.getsize may report for a produced file
FileSizes == {3 * 1024 * 1024}

RECURSIVE SeqsUpTo(_, _)
SeqsUpTo(S, n) ==
    IF n = 0 THEN {<<>>}
    ELSE LET shorter == SeqsUpTo(S, n - 1)
         IN  shorter \cup {Append(s, x) : s \in {t \in shorter : Len(t) = n - 1}, x \in S}

\* the formats argument: None, or a list of format identifiers
FormatArgs == {[none |-> TRUE]} \cup
              {[none |-> FALSE, value |-> s] : s \in SeqsUpTo(FormatIds, MaxLen)}

\* if formats is None: formats = ["mp3"]
DefaultFormats(arg) == IF arg.none THEN <<"mp3">> ELSE arg.value

\* ------------------------------------------------------- the config table
FormatConfigs ==
    [f \in SupportedFormats |->
        CASE f = "mp3"  -> [format |-> "bestaudio/best", postprocessors |-> <<>>, ext |-> "mp3"]
          [] f = "mp4"  -> [format |-> "best[ext=mp4]/best", postprocessors |-> <<>>, ext |-> "mp4"]
          [] f = "webm" -> [format |-> "best[ext=webm]/best", postprocessors |-> <<>>, ext |-> "webm"]
          [] f = "m4a"  -> [format |-> "bestaudio[ext=m4a]/bestaudio", postprocessors |-> <<>>, ext |-> "m4a"]
          [] f = "flac" -> [format |-> "bestaudio/best",
                            postprocessors |-> <<[key |-> "FFmpegExtractAudio", preferredcodec |-> "flac"]>>,
                            ext |-> "flac"]
          [] f = "wav"  -> [format |-> "bestaudio/best",
                            postprocessors |-> <<[key |-> "FFmpegExtractAudio", preferredcodec |-> "wav"]>>,
                            ext |-> "wav"]
          [] f = "ogg"  -> [format |-> "bestaudio/best",
                            postprocessors |-> <<[key |-> "FFmpegExtractAudio", preferredcodec |-> "vorbis"]>>,
                            ext |-> "ogg"]]

\* if fmt in ['mp3', 'flac', 'wav', 'ogg']
AudioBranchFormats == {"mp3", "flac", "wav", "ogg"}

QualityFormatsAll == {"mp3", "flac", "wav", "ogg"}
\* if fmt == 'mp3'
QualityFormats == {"mp3"}

\* include_thumbnail and fmt in ['mp3', 'flac', 'm4a']
ThumbnailFormats == {"mp3", "flac", "m4a"}

\* 'with_thumbnail': include_thumbnail if fmt in ['mp3', 'flac', 'm4a'] else False
RecordThumbnailFormats == {"mp3", "flac", "m4a"}

\* ------------------------------------------------------------ pure parts
\* the post-processing list built for fmt from the table tbl
Postprocessors(tbl, fmt, thumb, meta, q) ==
    LET p0 == tbl[fmt].postprocessors
        p1 == IF fmt \in AudioBranchFormats /\ fmt \in QualityFormats
              THEN Append(p0, [key |-> "FFmpegExtractAudio", preferredcodec |-> fmt,
                               preferredquality |-> q])
              ELSE p0
        p2 == IF fmt \in AudioBranchFormats /\ thumb /\ fmt \in ThumbnailFormats
              THEN Append(p1, [key |-> "EmbedThumbnail"])
              ELSE p1
        p3 == IF fmt \in AudioBranchFormats /\ meta
              THEN Append(p2, [key |-> "FFmpegMetadata"])
              ELSE p2
    IN  p3

\* a dict as a function from its keys; d2 adds keys to d1
Merge(d1, d2) == d2 @@ d1

\* the ydl_opts dictionary built for fmt
YdlOpts(tbl, fmt, thumb, meta, q, dir, keep, qt) ==
    LET pps  == Postprocessors(tbl, fmt, thumb, meta, q)
        base == [format |-> tbl[fmt].format,
                 outtmpl |-> <<dir, "%(title)s_", fmt, ".%(ext)s">>,
                 quiet |-> qt, no_warnings |-> qt, no_color |-> TRUE,
                 ignoreerrors |-> FALSE]
        o1   == IF fmt \in AudioBranchFormats /\ thumb /\ fmt \in ThumbnailFormats
                THEN Merge(base, [writethumbnail |-> TRUE]) ELSE base
        o2   == IF keep THEN Merge(o1, [keepvideo |-> TRUE]) ELSE o1
        o3   == IF pps # <<>> THEN Merge(o2, [postprocessors |-> pps]) ELSE o2
    IN  o3

TableAfterAliased(tbl, fmt, pps) == [tbl EXCEPT ![fmt].postprocessors = pps]
\* postprocessors = config['postprocessors'].copy(): the appends go to the
\* copy, the list inside format_configs stays as it was
TableAfter(tbl, fmt, pps) == tbl

AdvanceRetry(k, failed) == IF failed THEN k ELSE k + 1
\* for fmt in formats: the next iteration takes the next element, whether
\* the body ended normally, by continue or in the except clause
Advance(k, failed) == k + 1

\* base_filename = ydl.prepare_filename(info): the output template filled in
\* with the title and the extension of the selected source stream
PrepareFilename(dir, fmt) == <<dir, "title_" \o fmt, "src">>

\* final_filename = base_filename.rsplit('.', 1)[0] + f'.{fmt}'
FinalFilename(base, fmt) == <<base[1], base[2], fmt>>

\* file_size = os.path.getsize(final_filename) / (1024 * 1024), kept here in
\* hundredths of a MB as round(file_size, 2) keeps two decimals
SizeMb(bytes) == (bytes * 100) \div (1024 * 1024)

PrependDownload(res, rec) == [res EXCEPT !.downloads = <<rec>> \o @]
\* results['downloads'].append({...})
AppendDownload(res, rec) == [res EXCEPT !.downloads = Append(@, rec)]

DropError(res, err) == res
\* results['errors'].append(error_msg)
AppendError(res, err) == [res EXCEPT !.errors = Append(@, err)]

\* the success record of a format
SuccessRecord(fmt, final, bytes, thumb, meta) ==
    [format |-> fmt, filename |-> final, size_mb |-> SizeMb(bytes),
     with_thumbnail |-> IF fmt \in RecordThumbnailFormats THEN thumb ELSE FALSE,
     with_metadata |-> meta, success |-> TRUE]

\* the three error strings, by their text and the format they are about
UnsupportedMsg(fmt) == [text |-> "Unsupported format", format |-> fmt]
NotFoundMsg(final, fmt) == [text |-> "File not found after download", format |-> fmt, filename |-> final]
ExceptionMsg(fmt) == [text |-> "Error downloading", format |-> fmt]

\* ----------------------------------------------------------------- state
VARIABLES url, formats, include_thumbnail, include_metadata, output_dir,
          quality, keep_original, quiet,
          format_configs, results, idx, pc, ydl_opts, disk, handed

args == <<url, formats, include_thumbnail, include_metadata, output_dir,
          quality, keep_original, quiet>>
vars == <<url, formats, include_thumbnail, include_metadata, output_dir,
          quality, keep_original, quiet,
          format_configs, results, idx, pc, ydl_opts, disk, handed>>

\* the state when the loop is about to start
Init ==
    /\ url \in Urls
    /\ \E a \in FormatArgs : formats = DefaultFormats(a)
    /\ include_thumbnail \in BOOLEAN
    /\ include_metadata \in BOOLEAN
    /\ output_dir \in OutputDirs
    /\ quality \in Qualities
    /\ \E p \in PassThroughFlags : keep_original = p[1] /\ quiet = p[2]
    /\ format_configs = FormatConfigs
    /\ results = [url |-> url, formats_requested |-> formats,
                  downloads |-> <<>>, errors |-> <<>>]
    /\ idx = 1
    /\ pc = "loop"
    /\ ydl_opts = [format |-> "unset"]
    /\ disk = [f \in {} |-> 0]
    /\ handed = <<>>

fmt == formats[idx]

\* the except clause: one error string, then the next format
Raise ==
    /\ results' = AppendError(results, ExceptionMsg(fmt))
    /\ idx' = Advance(idx, TRUE)
    /\ pc' = "loop"

\* if fmt not in format_configs: ... continue
Unsupported ==
    /\ pc = "loop" /\ idx <= Len(formats)
    /\ fmt \notin DOMAIN format_configs
    /\ results' = AppendError(results, UnsupportedMsg(fmt))
    /\ idx' = Advance(idx, TRUE)
    /\ UNCHANGED <<args, format_configs, pc, ydl_opts, disk, handed>>

\* the configuration is built and handed to yt_dlp.YoutubeDL(ydl_opts)
BuildEffects ==
    /\ pc = "loop" /\ idx <= Len(formats)
    /\ fmt \in DOMAIN format_configs
    /\ LET pps  == Postprocessors(format_configs, fmt, include_thumbnail,
                                  include_metadata, quality)
           opts == YdlOpts(format_configs, fmt, include_thumbnail, include_metadata,
                           quality, output_dir, keep_original, quiet)
       IN  /\ ydl_opts' = opts
           /\ format_configs' = TableAfter(format_configs, fmt, pps)
           /\ handed' = Append(handed, [pos |-> idx, format |-> fmt, opts |-> opts])

OpenOk ==
    /\ BuildEffects
    /\ pc' = "extract"
    /\ UNCHANGED <<args, results, idx, disk>>

OpenRaises ==
    /\ BuildEffects
    /\ Raise
    /\ UNCHANGED <<args, disk>>

\* info = ydl.extract_info(url, download=False)
ExtractInfoOk ==
    /\ pc = "extract"
    /\ pc' = "download"
    /\ UNCHANGED <<args, format_configs, results, idx, ydl_opts, disk, handed>>

ExtractInfoRaises ==
    /\ pc = "extract"
    /\ Raise
    /\ UNCHANGED <<args, format_configs, ydl_opts, disk, handed>>

\* ydl.download([url]) returns; the file with the requested extension may or
\* may not have been produced
DownloadOk ==
    /\ pc = "download"
    /\ \/ \E b \in FileSizes :
            disk' = Merge(disk, [f \in {FinalFilename(PrepareFilename(output_dir, fmt), fmt)} |-> b])
       \/ disk' = disk
    /\ pc' = "prepare"
    /\ UNCHANGED <<args, format_configs, results, idx, ydl_opts, handed>>

DownloadRaises ==
    /\ pc = "download"
    /\ Raise
    /\ UNCHANGED <<args, format_configs, ydl_opts, disk, handed>>

PrepareFilenameRaises ==
    /\ pc = "prepare"
    /\ Raise
    /\ UNCHANGED <<args, format_configs, ydl_opts, disk, handed>>

\* prepare_filename returns and os.path.exists(final_filename) holds
FileFound ==
    /\ pc = "prepare"
    /\ LET final == FinalFilename(PrepareFilename(output_dir, fmt), fmt)
       IN  /\ final \in DOMAIN disk
           /\ results' = AppendDownload(results,
                            SuccessRecord(fmt, final, disk[final],
                                          include_thumbnail, include_metadata))
    /\ idx' = Advance(idx, FALSE)
    /\ pc' = "loop"
    /\ UNCHANGED <<args, format_configs, ydl_opts, disk, handed>>

\* prepare_filename returns and the file is not there
FileMissing ==
    /\ pc = "prepare"
    /\ LET final == FinalFilename(PrepareFilename(output_dir, fmt), fmt)
       IN  /\ final \notin DOMAIN disk
           /\ results' = AppendError(results, NotFoundMsg(final, fmt))
    /\ idx' = Advance(idx, TRUE)
    /\ pc' = "loop"
    /\ UNCHANGED <<args, format_configs, ydl_opts, disk, handed>>

\* the loop is over: the summary is printed and results returned
Return ==
    /\ pc = "loop" /\ idx > Len(formats)
    /\ pc' = "done"
    /\ UNCHANGED <<args, format_configs, results, idx, ydl_opts, disk, handed>>

Next ==
    \/ Unsupported
    \/ OpenOk
    \/ OpenRaises
    \/ ExtractInfoOk
    \/ ExtractInfoRaises
    \/ DownloadOk
    \/ DownloadRaises
    \/ PrepareFilenameRaises
    \/ FileFound
    \/ FileMissing
    \/ Return

Spec == Init /\ [][Next]_vars

TypeOK ==
    /\ pc \in {"loop", "extract", "download", "prepare", "done"}
    /\ idx \in 1..(Len(formats) + 1)

\* ------------------------------------------------------------ properties
\* number of times a configuration was handed to the downloader for the
\* element at position k of the formats list
Invocations(k) == Cardinality({j \in 1..Len(handed) : handed[j].pos = k})

\* positions whose loop body has been entered
Entered == IF pc \in {"extract", "download", "prepare"} THEN idx ELSE idx - 1

\* positions whose loop body is over
Processed == idx - 1

HasStep(opts, key) ==
    /\ "postprocessors" \in DOMAIN opts
    /\ \E j \in 1..Len(opts.postprocessors) : opts.postprocessors[j].key = key

Last(s) == s[Len(s)]

FormatsOf(s) == [j \in 1..Len(s) |-> s[j].format]

RECURSIVE IsSubseq(_, _)
IsSubseq(s, t) ==
    IF s = <<>> THEN TRUE
    ELSE IF t = <<>> THEN FALSE
    ELSE IF Head(s) = Head(t) THEN IsSubseq(Tail(s), Tail(t))
    ELSE IsSubseq(s, Tail(t))

IsPrefix(s, t) == Len(s) <= Len(t) /\ \A j \in 1..Len(s) : s[j] = t[j]

\* C1 as stated: at return, the downloader has been invoked exactly once for
\* every element of the formats list, unsupported ones included.
C1_EveryElementInvokedOnce ==
    pc = "done" => \A k \in 1..Len(formats) : Invocations(k) = 1

\* C1 amended: the downloader is invoked exactly once for every element of
\* the formats list that is a key of format_configs and never for an element
\* that is not; no position is invoked twice, also not after a failure, and
\* at return every position has been passed.
C1_EverySupportedInvokedOnce ==
    /\ \A j \in 1..Len(handed) : handed[j].format = formats[handed[j].pos]
    /\ \A k \in 1..Len(formats) :
          Invocations(k) = IF k <= Entered /\ formats[k] \in SupportedFormats THEN 1 ELSE 0
    /\ pc = "done" => Entered = Len(formats)

C1_Witness ==
    /\ pc = "done"
    /\ formats = <<"avi", "mp3">>
    /\ Len(results.errors) = 2
    /\ Len(handed) = 1

\* C2 as stated: whenever a success record is appended, its with_thumbnail is
\* true exactly when the configuration handed to the downloader for that
\* format has the EmbedThumbnail step, and its with_metadata exactly when it
\* has the FFmpegMetadata step.
C2_RecordMatchesConfig ==
    [][Len(results'.downloads) > Len(results.downloads) =>
         LET r == Last(results'.downloads)
         IN  /\ r.with_thumbnail = HasStep(ydl_opts, "EmbedThumbnail")
             /\ r.with_metadata = HasStep(ydl_opts, "FFmpegMetadata")]_vars

\* C3 as stated: the configuration handed to the downloader for any of the
\* seven supported formats contains the FFmpegMetadata step exactly when
\* include_metadata is set.
C3_MetadataEveryFormat ==
    \A j \in 1..Len(handed) :
        HasStep(handed[j].opts, "FFmpegMetadata") = include_metadata

\* C4 as stated: the configuration handed to the downloader sets
\* writethumbnail and contains the EmbedThumbnail step exactly when
\* include_thumbnail is set and the format is one of the audio formats mp3,
\* m4a, flac, wav, ogg.
C4_ThumbnailEveryAudioFormat ==
    \A j \in 1..Len(handed) :
        LET h    == handed[j]
            want == include_thumbnail /\ h.format \in {"mp3", "m4a", "flac", "wav", "ogg"}
        IN  /\ HasStep(h.opts, "EmbedThumbnail") = want
            /\ ("writethumbnail" \in DOMAIN h.opts) = want

\* the FFmpegExtractAudio steps of a configuration
ExtractAudioSteps(opts) ==
    IF "postprocessors" \in DOMAIN opts
    THEN {j \in 1..Len(opts.postprocessors) : opts.postprocessors[j].key = "FFmpegExtractAudio"}
    ELSE {}

\* C5: a configuration handed to the downloader for a format other than mp3
\* is the configuration the same call would have built with any other value
\* of quality; the one for mp3 has a single FFmpegExtractAudio step and its
\* preferredquality is the quality argument.
C5_QualityOnlyForMp3 ==
    \A j \in 1..Len(handed) :
        LET h == handed[j]
        IN  /\ h.format # "mp3" =>
                 \A q \in Qualities \ {quality} :
                    h.opts = YdlOpts(FormatConfigs, h.format, include_thumbnail,
                                     include_metadata, q, output_dir, keep_original, quiet)
            /\ h.format = "mp3" =>
                 /\ Cardinality(ExtractAudioSteps(h.opts)) = 1
                 /\ \A s \in ExtractAudioSteps(h.opts) :
                       /\ "preferredquality" \in DOMAIN h.opts.postprocessors[s]
                       /\ h.opts.postprocessors[s].preferredquality = quality

C5_Witness ==
    /\ formats = <<"mp3", "flac">>
    /\ Len(handed) = 2
    /\ pc = "done"

\* C6: at every point of a run the formats of results['downloads'], read in
\* order, and the formats of results['errors'], read in order, are each a
\* subsequence of the formats list.
C6_RecordsFollowRequestOrder ==
    /\ IsSubseq(FormatsOf(results.downloads), formats)
    /\ IsSubseq(FormatsOf(results.errors), formats)

C6_Witness ==
    /\ pc = "done"
    /\ Len(formats) = 2 /\ formats[1] # formats[2]
    /\ Len(results.downloads) = 2

\* C7: format_configs is never modified, every configuration handed to the
\* downloader is the one built from the pristine table for that format and
\* the call's flags, url and formats_requested keep their values, and
\* downloads and errors only grow at their end.
C7_NoSharedMutableState ==
    /\ [](/\ format_configs = FormatConfigs
          /\ results.url = url
          /\ results.formats_requested = formats
          /\ \A j \in 1..Len(handed) :
                handed[j].opts = YdlOpts(FormatConfigs, handed[j].format, include_thumbnail,
                                         include_metadata, quality, output_dir,
                                         keep_original, quiet))
    /\ [][/\ results'.url = results.url
          /\ results'.formats_requested = results.formats_requested
          /\ IsPrefix(results.downloads, results'.downloads)
          /\ IsPrefix(results.errors, results'.errors)]_vars

C7_Witness ==
    /\ formats = <<"flac", "flac">>
    /\ include_metadata /\ include_thumbnail
    /\ Len(handed) = 2
    /\ handed[1].opts = handed[2].opts
    /\ Len(results.downloads) = 1

\* C8: after k elements of the formats list have been processed, downloads
\* and errors hold k entries together, at return as many as the list has
\* elements, and every success record names a file on disk whose extension
\* is the record's format.
C8_OneOutcomePerFormat ==
    /\ Len(results.downloads) + Len(results.errors) = Processed
    /\ pc = "done" => Len(results.downloads) + Len(results.errors) = Len(formats)
    /\ \A j \in 1..Len(results.downloads) :
          LET r == results.downloads[j]
          IN  /\ r.filename \in DOMAIN disk
              /\ r.filename[3] = r.format
              /\ r.format \in SupportedFormats

C8_Witness ==
    /\ pc = "done"
    /\ Len(formats) = 2
    /\ Len(results.downloads) = 1
    /\ \E j \in 1..Len(results.errors) : results.errors[j].text = "File not found after download"
====
